---- MODULE Spec2Model ----
(***************************************************************************)
(* The cover-tree node (grandma/src/node.rs) and the construction-time     *)
(* data caches (grandma/src/data_caches.rs) as state machines.             *)
(*                                                                         *)
(* Spec      one CoverNode driven through its mutation API, its            *)
(*           persistence mapping and its queries.                          *)
(* SpecPart  one CoveredData / UncoveredData pair driven through           *)
(*           CoveredData::new, CoveredData::split and                      *)
(*           UncoveredData::pick_center.                                   *)
(*                                                                         *)
(* f32 distances, radii and thresholds are modelled by integers: the code  *)
(* only compares them (<, >) and stores them. Points live on a line, as in *)
(* the repository's tests (dimension 1, L2), so a distance is |a - b|.     *)
(***************************************************************************)
EXTENDS Integers, Sequences, FiniteSets, TLC

VARIABLES
    node,       \* the CoverNode: a record with the struct's fields
    last,       \* the last call on the node: [op, args, ret]
    applied,    \* history: coverage of the successful inserts so far
    nests,      \* history: the nested scales established so far (at most 2 kept)
    cloud,      \* the point cloud: the coordinate of each point, index 0 first
    covered,    \* the CoveredData in hand (Option)
    uncovered,  \* the UncoveredData in hand (Option)
    plast,      \* the last call on the caches: [op, args, ret, pre]
    queries,    \* the knn calls in progress on the node, one per thread
    picks       \* history: the pool pick_center is repeated on, the calls made
                \* on it and the CoveredData they returned

nodeVars == <<node, last, applied, nests, queries>>
partVars == <<covered, uncovered, plast>>
vars == <<node, last, applied, nests, cloud, covered, uncovered, plast, queries,
         picks>>

----------------------------------------------------------------------------
(* Bounds of the model *)

\* longest singles_indexes the model builds
MaxSingles == 2
\* longest children.addresses the model builds
MaxChildren == 2
\* largest coverage argument of insert_nested_child / insert_child
MaxCoverage == 1
\* cap on cover_count (usize in the code)
MaxCount == 3
\* largest capacity k of a query heap
MaxK == 2
\* most points of a cloud in SpecPart
MaxPoints == 4
\* the longest slice find_split is given
MaxSlice == 3
\* the width of usize in the model (64 in the program): len() - 1 wraps
\* modulo 2^UsizeBits in a release build
UsizeBits == 8

----------------------------------------------------------------------------
(* Option and Result *)

None == [tag |-> "None"]
Some(v) == [tag |-> "Some", val |-> v]
Ok(v) == [tag |-> "Ok", val |-> v]
Err(e) == [tag |-> "Err", err |-> e]
\* Ok(()) of a MalwareBrotResult<()>
Unit == <<>>

Abs(x) == IF x < 0 THEN -x ELSE x
Range(s) == {s[i] : i \in 1..Len(s)}
SeqsUpTo(S, n) == UNION {[1..m -> S] : m \in 0..n}

----------------------------------------------------------------------------
(* The point cloud (pointcloud crate): the contract the node consumes *)

\* the cloud of Spec: points 0, 1, 2 at these coordinates
NodeCloud == <<1, 0, 2>>
\* the label of each point of NodeCloud
NodeLabels == <<0, 0, 1>>

ValidIndex(c, i) == i \in 0..(Len(c) - 1)
ScaleIndexes == {-1, 0}

\* PointCloud::distances_to_point: the distances from a query point to the
\* indexed points, aligned with the indexes; an error on an invalid index
distances_to_point(c, point, indexes) ==
    IF \E i \in 1..Len(indexes) : ~ValidIndex(c, indexes[i])
    THEN Err("MetricError")
    ELSE Ok([i \in 1..Len(indexes) |-> Abs(point - c[indexes[i] + 1])])

\* PointCloud::distances_to_point_index: the same from an indexed point
distances_to_point_index(c, center, indexes) ==
    IF ~ValidIndex(c, center)
    THEN Err("MetricError")
    ELSE distances_to_point(c, c[center + 1], indexes)

\* PointCloud::reference_indexes: every index, in order
reference_indexes(c) == [i \in 1..Len(c) |-> i - 1]

\* MetaSummary::new(): the empty summary
EmptySummary == [count |-> 0, labels |-> 0]

RECURSIVE LabelSum(_)
LabelSum(indexes) ==
    IF indexes = <<>> THEN 0
    ELSE NodeLabels[Head(indexes) + 1] + LabelSum(Tail(indexes))

\* PointCloud::get_metasummary: a summary of the labels of the indexed points
get_metasummary(c, indexes) ==
    IF \E i \in 1..Len(indexes) : ~ValidIndex(c, indexes[i])
    THEN Err("MetricError")
    ELSE Ok([count |-> Len(indexes), labels |-> LabelSum(indexes)])

\* PointCloud::adj(...).min(): the least distance between two of the listed
\* points (two positions of the list), None when the list has no pair
adj_min(c, nodes) ==
    IF \E i \in 1..Len(nodes) : ~ValidIndex(c, nodes[i])
    THEN Err("MetricError")
    ELSE LET pairs == {p \in (1..Len(nodes)) \X (1..Len(nodes)) : p[1] < p[2]}
             d(p) == Abs(c[nodes[p[1]] + 1] - c[nodes[p[2]] + 1])
         IN IF pairs = {} THEN Ok(None)
            ELSE Ok(Some(CHOOSE m \in {d(p) : p \in pairs} :
                            \A p \in pairs : m <= d(p)))

----------------------------------------------------------------------------
(* CoverNode: the mutation API *)

\* CoverNode::new
NewNode(address) ==
    [address |-> address,
     radius |-> 0,
     cover_count |-> 0,
     children |-> None,
     singles_indexes |-> <<>>,
     singles_summary |-> None]

is_leaf(n) == n.children = None

\* insert_nested_child without the DoubleNest check: it nests again
InsertNestedChildBuggy(n, scale_index, coverage) ==
    [node |-> [n EXCEPT !.cover_count = @ + coverage,
                        !.children = Some([nested_scale |-> scale_index,
                                           addresses |-> <<>>])],
     ret |-> Ok(Unit)]
\* insert_nested_child that reports DoubleNest and drops the siblings
InsertNestedChildDrops(n, scale_index, coverage) ==
    LET counted == [n EXCEPT !.cover_count = @ + coverage]
    IN IF counted.children.tag = "Some"
       THEN [node |-> [counted EXCEPT !.children.val.addresses = <<>>],
             ret |-> Err("DoubleNest")]
       ELSE [node |-> [counted EXCEPT !.children =
                          Some([nested_scale |-> scale_index, addresses |-> <<>>])],
             ret |-> Ok(Unit)]
\* the node after insert_nested_child(scale_index, coverage), and its result
insert_nested_child(n, scale_index, coverage) ==
    LET counted == [n EXCEPT !.cover_count = @ + coverage]
    IN IF counted.children.tag = "Some"
       THEN [node |-> counted, ret |-> Err("DoubleNest")]
       ELSE [node |-> [counted EXCEPT !.children =
                          Some([nested_scale |-> scale_index, addresses |-> <<>>])],
             ret |-> Ok(Unit)]

\* remove_children that detaches the children and hands back nothing
RemoveChildrenDrops(n) ==
    [node |-> [n EXCEPT !.children = None], ret |-> None]
\* remove_children that also gives up the coverage counted so far
RemoveChildrenResets(n) ==
    [node |-> [n EXCEPT !.children = None, !.cover_count = 0],
     ret |-> n.children]
\* the node after remove_children(), and the children it hands back
remove_children(n) ==
    [node |-> [n EXCEPT !.children = None], ret |-> n.children]

\* insert_child that puts the address in front of the siblings
InsertChildFront(n, address, coverage) ==
    LET counted == [n EXCEPT !.cover_count = @ + coverage]
    IN IF counted.children.tag = "Some"
       THEN [node |-> [counted EXCEPT !.children.val.addresses = <<address>> \o @],
             ret |-> Ok(Unit)]
       ELSE [node |-> counted, ret |-> Err("InsertBeforeNest")]
\* the node after insert_child(address, coverage), and its result
insert_child(n, address, coverage) ==
    LET counted == [n EXCEPT !.cover_count = @ + coverage]
    IN IF counted.children.tag = "Some"
       THEN [node |-> [counted EXCEPT !.children.val.addresses = Append(@, address)],
             ret |-> Ok(Unit)]
       ELSE [node |-> counted, ret |-> Err("InsertBeforeNest")]

\* the node after insert_singletons(addresses)
insert_singletons(n, addresses) ==
    [n EXCEPT !.cover_count = @ + Len(addresses),
              !.singles_indexes = @ \o addresses]

\* the node after insert_singleton(address)
insert_singleton(n, address) ==
    [n EXCEPT !.cover_count = @ + 1,
              !.singles_indexes = Append(@, address)]

\* the node after set_radius(radius)
set_radius(n, radius) == [n EXCEPT !.radius = radius]

\* the node after update_metasummary(point_cloud), and its result
update_metasummary(n, c) ==
    LET s == get_metasummary(c, n.singles_indexes)
    IN IF s.tag = "Err"
       THEN [node |-> n, ret |-> s]
       ELSE [node |-> [n EXCEPT !.singles_summary = Some(s.val)], ret |-> Ok(Unit)]

----------------------------------------------------------------------------
(* CoverNode: the persistence mapping (NodeProto of tree_file_format) *)

\* `x as u64` of a usize: zero extension, the value is kept
AsU64(x) == x
\* `x as PointIndex` / `x as usize` of a u64 that came from a usize
AsIndex(x) == x
\* `x as i32` of an i32 field
AsI32(x) == x

\* NodeProto::new(): every field at its default
NewProto ==
    [cover_count |-> 0,
     center_index |-> 0,
     radius |-> 0,
     outlier_point_indexes |-> <<>>,
     is_leaf |-> FALSE,
     nested_scale_index |-> 0,
     children_scale_indexes |-> <<>>,
     children_point_indexes |-> <<>>]

\* CoverNode::save
save(n) ==
    LET proto == [NewProto EXCEPT
                    !.cover_count = AsU64(n.cover_count),
                    !.center_index = AsU64(n.address[2]),
                    !.radius = n.radius,
                    !.outlier_point_indexes =
                        [i \in 1..Len(n.singles_indexes) |-> AsU64(n.singles_indexes[i])]]
    IN IF n.children.tag = "Some"
       THEN LET a == n.children.val.addresses
            IN [proto EXCEPT
                  !.is_leaf = FALSE,
                  !.nested_scale_index = n.children.val.nested_scale,
                  !.children_scale_indexes = [i \in 1..Len(a) |-> a[i][1]],
                  !.children_point_indexes = [i \in 1..Len(a) |-> AsU64(a[i][2])]]
       ELSE [proto EXCEPT !.is_leaf = TRUE]

\* the shorter of two lengths: Iterator::zip stops at the shorter side
MinLen(a, b) == IF Len(a) < Len(b) THEN Len(a) ELSE Len(b)

\* load that ignores the leaf flag and the child arrays
LoadAlwaysLeaf(scale_index, node_proto) ==
    [address |-> <<scale_index, node_proto.center_index>>,
     radius |-> node_proto.radius,
     cover_count |-> AsIndex(node_proto.cover_count),
     children |-> None,
     singles_indexes |-> [i \in 1..Len(node_proto.outlier_point_indexes) |->
                             AsIndex(node_proto.outlier_point_indexes[i])],
     singles_summary |-> Some(EmptySummary)]
\* CoverNode::load
load(scale_index, node_proto) ==
    LET si == node_proto.children_scale_indexes
        pi == node_proto.children_point_indexes
    IN [address |-> <<scale_index, node_proto.center_index>>,
        radius |-> node_proto.radius,
        cover_count |-> AsIndex(node_proto.cover_count),
        children |->
            IF node_proto.is_leaf
            THEN None
            ELSE Some([nested_scale |-> AsI32(node_proto.nested_scale_index),
                       addresses |-> [i \in 1..MinLen(si, pi) |->
                                         <<AsI32(si[i]), AsIndex(pi[i])>>]]),
        singles_indexes |-> [i \in 1..Len(node_proto.outlier_point_indexes) |->
                                AsIndex(node_proto.outlier_point_indexes[i])],
        singles_summary |-> Some(EmptySummary)]

----------------------------------------------------------------------------
(* CoverNode: the separation check *)

\* the centers of the sibling children, in order
ChildCenters(n) ==
    IF n.children.tag = "Some"
    THEN [i \in 1..Len(n.children.val.addresses) |-> n.children.val.addresses[i][2]]
    ELSE <<>>

\* the points check_seperation hands to adj: singles, center, sibling centers
SeparationNodes(n) == Append(n.singles_indexes, n.address[2]) \o ChildCenters(n)

\* CoverNode::check_seperation: Ok(scale > adj.min()); the minimum over no
\* pair is +infinity, which no scale exceeds
check_seperation(n, scale, c) ==
    LET adj == adj_min(c, SeparationNodes(n))
    IN IF adj.tag = "Err" THEN adj
       ELSE Ok(adj.val.tag = "Some" /\ scale > adj.val.val)

----------------------------------------------------------------------------
(* KnnQueryHeap (query_tools): the contract the node consumes.  best is the *)
(* best-k candidate list, <<distance, point index>>, ascending; nodes is    *)
(* the list of node entries offered, in the order they were offered.        *)

\* KnnQueryHeap::new(k, scale_base)
NewHeap(k) == [k |-> k, best |-> <<>>, nodes |-> <<>>]

\* one candidate offered: placed after the candidates that are not farther
\* (ties keep the order of arrival), the list cut to the k nearest
OfferOutlier(best, k, index, dist) ==
    LET before == Cardinality({j \in 1..Len(best) : best[j][1] <= dist})
        all == SubSeq(best, 1, before) \o <<<<dist, index>>>>
                   \o SubSeq(best, before + 1, Len(best))
    IN SubSeq(all, 1, IF Len(all) < k THEN Len(all) ELSE k)

RECURSIVE OfferOutliers(_, _, _, _)
OfferOutliers(best, k, indexes, dists) ==
    IF indexes = <<>> THEN best
    ELSE OfferOutliers(OfferOutlier(best, k, Head(indexes), Head(dists)), k,
                       Tail(indexes), Tail(dists))

\* KnnQueryHeap::push_outliers(indexes, dists)
push_outliers(heap, indexes, dists) ==
    [heap EXCEPT !.best = OfferOutliers(@, heap.k, indexes, dists)]

\* KnnQueryHeap::push_nodes(addresses, dists, parent)
push_nodes(heap, addresses, dists, parent) ==
    [heap EXCEPT !.nodes = @ \o
        [i \in 1..Len(addresses) |->
            [address |-> addresses[i], dist |-> dists[i], parent |-> parent]]]

\* KnnQueryHeap::unpack: <<distance, point index>>, ascending by distance
unpack(heap) == heap.best
\* KnnQueryHeap::len
heap_len(heap) == Len(heap.best)
\* KnnQueryHeap::node_len
node_len(heap) == Len(heap.nodes)

----------------------------------------------------------------------------
(* CoverNode: the KNN protocol.  Each operator yields the result, the heap  *)
(* after the call and the index lists handed to distances_to_point, in call *)
(* order.                                                                   *)

\* singleton_knn that asks for the distances a second time when the first
\* call fails
SingletonKnnRetries(n, point, c, query_heap) ==
    LET distances == distances_to_point(c, point, n.singles_indexes)
    IN IF distances.tag = "Err"
       THEN [ret |-> distances, heap |-> query_heap,
             calls |-> <<n.singles_indexes, n.singles_indexes>>]
       ELSE [ret |-> Ok(Unit),
             heap |-> push_outliers(query_heap, n.singles_indexes, distances.val),
             calls |-> <<n.singles_indexes>>]
\* CoverNode::singleton_knn
singleton_knn(n, point, c, query_heap) ==
    LET distances == distances_to_point(c, point, n.singles_indexes)
        calls == <<n.singles_indexes>>
    IN IF distances.tag = "Err"
       THEN [ret |-> distances, heap |-> query_heap, calls |-> calls]
       ELSE [ret |-> Ok(Unit),
             heap |-> push_outliers(query_heap, n.singles_indexes, distances.val),
             calls |-> calls]

\* child_knn that offers the siblings before the nested child
ChildKnnSiblingsFirst(n, dist_to_center, point, c, query_heap) ==
    LET own == distances_to_point(c, point, <<n.address[2]>>)
        calls == <<<<n.address[2]>>>>
    IN IF own.tag = "Err"
       THEN [ret |-> own, heap |-> query_heap, calls |-> calls]
       ELSE
       LET d == IF dist_to_center.tag = "Some" THEN dist_to_center.val ELSE own.val[1]
       IN IF n.children.tag = "Some"
          THEN LET distances == distances_to_point(c, point, ChildCenters(n))
                   calls2 == Append(calls, ChildCenters(n))
               IN IF distances.tag = "Err"
                  THEN [ret |-> distances, heap |-> query_heap, calls |-> calls2]
                  ELSE [ret |-> Ok(Unit),
                        heap |-> push_nodes(
                                    push_nodes(query_heap, n.children.val.addresses,
                                               distances.val, Some(n.address)),
                                    <<<<n.children.val.nested_scale, n.address[2]>>>>,
                                    <<d>>, None),
                        calls |-> calls2]
          ELSE [ret |-> Ok(Unit), heap |-> query_heap, calls |-> calls]
\* child_knn that offers the siblings and leaves the nested child out
ChildKnnNoNested(n, dist_to_center, point, c, query_heap) ==
    LET own == distances_to_point(c, point, <<n.address[2]>>)
        calls == <<<<n.address[2]>>>>
    IN IF own.tag = "Err"
       THEN [ret |-> own, heap |-> query_heap, calls |-> calls]
       ELSE IF n.children.tag = "Some"
            THEN LET distances == distances_to_point(c, point, ChildCenters(n))
                     calls2 == Append(calls, ChildCenters(n))
                 IN IF distances.tag = "Err"
                    THEN [ret |-> distances, heap |-> query_heap, calls |-> calls2]
                    ELSE [ret |-> Ok(Unit),
                          heap |-> push_nodes(query_heap, n.children.val.addresses,
                                              distances.val, Some(n.address)),
                          calls |-> calls2]
            ELSE [ret |-> Ok(Unit), heap |-> query_heap, calls |-> calls]
\* CoverNode::child_knn.  unwrap_or takes its argument by value, so the
\* distance to the center is computed before dist_to_center is looked at.
child_knn(n, dist_to_center, point, c, query_heap) ==
    LET own == distances_to_point(c, point, <<n.address[2]>>)
        calls == <<<<n.address[2]>>>>
    IN IF own.tag = "Err"
       THEN [ret |-> own, heap |-> query_heap, calls |-> calls]
       ELSE
       LET d == IF dist_to_center.tag = "Some" THEN dist_to_center.val ELSE own.val[1]
       IN IF n.children.tag = "Some"
          THEN LET children == n.children.val
                   nested == push_nodes(query_heap,
                                        <<<<children.nested_scale, n.address[2]>>>>,
                                        <<d>>, None)
                   children_indexes == ChildCenters(n)
                   distances == distances_to_point(c, point, children_indexes)
                   calls2 == Append(calls, children_indexes)
               IN IF distances.tag = "Err"
                  THEN [ret |-> distances, heap |-> nested, calls |-> calls2]
                  ELSE [ret |-> Ok(Unit),
                        heap |-> push_nodes(nested, children.addresses, distances.val,
                                            Some(n.address)),
                        calls |-> calls2]
          ELSE [ret |-> Ok(Unit), heap |-> query_heap, calls |-> calls]

\* knn that never offers the node's own center as a candidate
KnnSinglesOnly(n, dist_to_center, point, c, query_heap) ==
    LET s == singleton_knn(n, point, c, query_heap)
    IN IF s.ret.tag = "Err" THEN s
       ELSE
       LET own == distances_to_point(c, point, <<n.address[2]>>)
           calls == Append(s.calls, <<n.address[2]>>)
       IN IF own.tag = "Err"
          THEN [ret |-> own, heap |-> s.heap, calls |-> calls]
          ELSE
          LET d == IF dist_to_center.tag = "Some" THEN dist_to_center.val ELSE own.val[1]
              ch == child_knn(n, Some(d), point, c, s.heap)
          IN [ret |-> ch.ret, heap |-> ch.heap, calls |-> calls \o ch.calls]
\* knn that offers the node's own center whether or not it is a leaf
KnnCenterAlways(n, dist_to_center, point, c, query_heap) ==
    LET s == singleton_knn(n, point, c, query_heap)
    IN IF s.ret.tag = "Err" THEN s
       ELSE
       LET own == distances_to_point(c, point, <<n.address[2]>>)
           calls == Append(s.calls, <<n.address[2]>>)
       IN IF own.tag = "Err"
          THEN [ret |-> own, heap |-> s.heap, calls |-> calls]
          ELSE
          LET d == IF dist_to_center.tag = "Some" THEN dist_to_center.val ELSE own.val[1]
              ch == child_knn(n, Some(d), point, c, s.heap)
          IN IF ch.ret.tag = "Err"
             THEN [ret |-> ch.ret, heap |-> ch.heap, calls |-> calls \o ch.calls]
             ELSE [ret |-> Ok(Unit),
                   heap |-> push_outliers(ch.heap, <<n.address[2]>>, <<d>>),
                   calls |-> calls \o ch.calls]
\* CoverNode::knn
knn(n, dist_to_center, point, c, query_heap) ==
    LET s == singleton_knn(n, point, c, query_heap)
    IN IF s.ret.tag = "Err" THEN s
       ELSE
       LET own == distances_to_point(c, point, <<n.address[2]>>)
           calls == Append(s.calls, <<n.address[2]>>)
       IN IF own.tag = "Err"
          THEN [ret |-> own, heap |-> s.heap, calls |-> calls]
          ELSE
          LET d == IF dist_to_center.tag = "Some" THEN dist_to_center.val ELSE own.val[1]
              ch == child_knn(n, Some(d), point, c, s.heap)
              calls2 == calls \o ch.calls
          IN IF ch.ret.tag = "Err"
             THEN [ret |-> ch.ret, heap |-> ch.heap, calls |-> calls2]
             ELSE IF n.children.tag = "None"
                  THEN [ret |-> Ok(Unit),
                        heap |-> push_outliers(ch.heap, <<n.address[2]>>, <<d>>),
                        calls |-> calls2]
                  ELSE [ret |-> Ok(Unit), heap |-> ch.heap, calls |-> calls2]

----------------------------------------------------------------------------
(* One node under construction: a call of the mutation API per step *)

\* the address the node is created at
NodeAddresses == {<<0, 0>>}
\* the point indexes attached as singletons
SingleIndexes == {1, 2}
\* the addresses of routing children (the last one's center is no point)
ChildAddresses == {<<-1, 1>>, <<0, 3>>}
\* the radius set_radius is given
Radii == {1}
\* the center distance a caller passes as already known
KnownDists == {2}

Call(op, args, ret) == [op |-> op, args |-> args, ret |-> ret]

\* no pool is being worked on
NoPicks == [pool |-> <<>>, calls |-> 0, returned |-> <<>>]

InitNode ==
    /\ \E a \in NodeAddresses :
          /\ node = NewNode(a)
          /\ last = Call("new", [address |-> a], Ok(Unit))
    /\ applied = 0
    /\ nests = <<>>
    /\ cloud = NodeCloud
    /\ covered = None
    /\ uncovered = None
    /\ plast = [op |-> "none", args |-> <<>>, ret |-> Ok(Unit),
                pre |-> [covered |-> None, uncovered |-> None]]
    /\ queries = <<>>
    /\ picks = NoPicks

InsertNestedChild ==
    \E scale_index \in ScaleIndexes, coverage \in 0..MaxCoverage :
        /\ node.cover_count + coverage <= MaxCount
        /\ LET r == insert_nested_child(node, scale_index, coverage)
           IN /\ node' = r.node
              /\ last' = Call("insert_nested_child",
                              [scale_index |-> scale_index, coverage |-> coverage],
                              r.ret)

InsertChild ==
    \E address \in ChildAddresses, coverage \in 0..MaxCoverage :
        /\ node.cover_count + coverage <= MaxCount
        /\ node.children.tag = "Some" => Len(node.children.val.addresses) < MaxChildren
        /\ LET r == insert_child(node, address, coverage)
           IN /\ node' = r.node
              /\ last' = Call("insert_child",
                              [address |-> address, coverage |-> coverage], r.ret)

InsertSingletons ==
    \E addresses \in SeqsUpTo(SingleIndexes, MaxSingles) :
        /\ Len(node.singles_indexes) + Len(addresses) <= MaxSingles
        /\ node.cover_count + Len(addresses) <= MaxCount
        /\ node' = insert_singletons(node, addresses)
        /\ last' = Call("insert_singletons", [addresses |-> addresses], Ok(Unit))

InsertSingleton ==
    \E address \in SingleIndexes :
        /\ Len(node.singles_indexes) < MaxSingles
        /\ node.cover_count < MaxCount
        /\ node' = insert_singleton(node, address)
        /\ last' = Call("insert_singleton", [address |-> address], Ok(Unit))

RemoveChildren ==
    LET r == remove_children(node)
    IN /\ node' = r.node
       /\ last' = Call("remove_children", <<>>, Ok(r.ret))

SetRadius ==
    \E radius \in Radii :
        /\ node' = set_radius(node, radius)
        /\ last' = Call("set_radius", [radius |-> radius], Ok(Unit))

UpdateMetasummary ==
    LET r == update_metasummary(node, cloud)
    IN /\ node' = r.node
       /\ last' = Call("update_metasummary", <<>>, r.ret)

\* the coverage a call stands for: the coverage argument of an insert that
\* returned Ok, the number of singletons inserted, 0 otherwise
Counted(call) ==
    CASE call.op \in {"insert_nested_child", "insert_child"} ->
             IF call.ret.tag = "Ok" THEN call.args.coverage ELSE 0
      [] call.op = "insert_singletons" -> Len(call.args.addresses)
      [] call.op = "insert_singleton" -> 1
      [] OTHER -> 0

\* history: the coverage applied so far, and the nested scale each step from
\* leaf to routing established (the first two)
History ==
    /\ applied' = applied + Counted(last')
    /\ nests' = IF /\ node.children.tag = "None"
                   /\ node'.children.tag = "Some"
                   /\ Len(nests) < 2
                THEN Append(nests, node'.children.val.nested_scale)
                ELSE nests

\* a step of Spec, SpecQuery: the histories are not kept
Step(call) == call /\ UNCHANGED <<applied, nests, cloud, partVars, queries, picks>>

\* a step of SpecHistory
Recorded(call) ==
    call /\ History /\ UNCHANGED <<cloud, partVars, queries, picks>>

\* save(), then load(scale_index, ...) of the record it returned
SaveLoad ==
    \E scale_index \in ScaleIndexes :
        /\ last' = Call("save_load", [scale_index |-> scale_index],
                        Ok([proto |-> save(node),
                            loaded |-> load(scale_index, save(node))]))
        /\ UNCHANGED node

Next ==
    \/ Step(InsertNestedChild)
    \/ Step(InsertChild)
    \/ Step(InsertSingletons)
    \/ Step(InsertSingleton)
    \/ Step(RemoveChildren)
    \/ Step(SetRadius)
    \/ Step(UpdateMetasummary)
    \/ Step(SaveLoad)

Spec == InitNode /\ [][Next]_vars

NextHistory ==
    \/ Recorded(InsertNestedChild)
    \/ Recorded(InsertChild)
    \/ Recorded(InsertSingletons)
    \/ Recorded(InsertSingleton)
    \/ Recorded(RemoveChildren)
    \/ Recorded(SetRadius)

SpecHistory == InitNode /\ [][NextHistory]_vars

----------------------------------------------------------------------------
(* One node built and queried: the calls that shape the node, the          *)
(* separation check and knn                                                *)

\* the query points
QueryPoints == {0, 1, 3}
\* the scales check_seperation is given
SeparationScales == 0..3

CheckSeperation ==
    \E scale \in SeparationScales :
        /\ last' = Call("check_seperation", [scale |-> scale],
                        check_seperation(node, scale, cloud))
        /\ UNCHANGED node

\* a query that empties the singles list it has offered
BorrowDrains(n) == [n EXCEPT !.singles_indexes = <<>>]
\* the node after a call that takes &self: CoverNode has no field with
\* interior mutability, the call cannot write to it
Borrow(n) == n

\* the heaps a traversal passes in: fresh ones, and one in use that already
\* holds a candidate and a node entry
QueryHeaps ==
    {NewHeap(k) : k \in 1..MaxK}
        \cup {push_nodes(push_outliers(NewHeap(1), <<2>>, <<1>>),
                         <<<<0, 0>>>>, <<0>>, None)}
\* the center distance argument: absent, or already known
CenterDists == {None} \cup {Some(d) : d \in KnownDists}

\* knn on a fresh heap of capacity k
Knn ==
    \E k \in 1..MaxK, point \in QueryPoints, dist_to_center \in CenterDists :
        /\ last' = Call("knn",
                        [k |-> k, point |-> point, dist_to_center |-> dist_to_center],
                        knn(node, dist_to_center, point, cloud, NewHeap(k)))
        /\ node' = Borrow(node)

SingletonKnn ==
    \E query_heap \in QueryHeaps, point \in QueryPoints :
        /\ last' = Call("singleton_knn",
                        [point |-> point, query_heap |-> query_heap],
                        singleton_knn(node, point, cloud, query_heap))
        /\ node' = Borrow(node)

ChildKnn ==
    \E query_heap \in QueryHeaps, point \in QueryPoints,
       dist_to_center \in CenterDists :
        /\ last' = Call("child_knn",
                        [point |-> point, dist_to_center |-> dist_to_center,
                         query_heap |-> query_heap],
                        child_knn(node, dist_to_center, point, cloud, query_heap))
        /\ node' = Borrow(node)

NextQuery ==
    \/ Step(InsertNestedChild)
    \/ Step(InsertChild)
    \/ Step(InsertSingletons)
    \/ Step(InsertSingleton)
    \/ Step(RemoveChildren)
    \/ Step(CheckSeperation)
    \/ Step(Knn)

SpecQuery == InitNode /\ [][NextQuery]_vars

----------------------------------------------------------------------------
(* CoveredData and UncoveredData (data_caches.rs).  A CoveredData is a     *)
(* record [dists, coverage, center_index]; an UncoveredData a record       *)
(* [coverage].                                                             *)

\* a PointCloud call, which fails when the point store is unavailable
Provider(avail, result) == IF avail THEN result ELSE Err("MetricError")

\* the sequence without its element at position pos (counted from 1)
RemoveAt(seq, pos) == SubSeq(seq, 1, pos - 1) \o SubSeq(seq, pos + 1, Len(seq))

\* the same pass filling close and far from the back: each reversed
RECURSIVE ReverseLoop(_, _, _)
ReverseLoop(indexes, dists, bound) ==
    IF indexes = <<>> \/ dists = <<>>
    THEN [close_index |-> <<>>, close_dist |-> <<>>, far |-> <<>>]
    ELSE LET rest == ReverseLoop(Tail(indexes), Tail(dists), bound)
         IN IF Head(dists) < bound
            THEN [rest EXCEPT !.close_index = Append(@, Head(indexes)),
                              !.close_dist = Append(@, Head(dists))]
            ELSE [rest EXCEPT !.far = Append(@, Head(indexes))]

\* the loop of split and of pick_center: one pass over the zipped indexes
\* and distances, an index going to close with its distance when the distance
\* is below the bound, to far otherwise
RECURSIVE PartitionLoop(_, _, _)
PartitionLoop(indexes, dists, bound) ==
    IF indexes = <<>> \/ dists = <<>>
    THEN [close_index |-> <<>>, close_dist |-> <<>>, far |-> <<>>]
    ELSE LET rest == PartitionLoop(Tail(indexes), Tail(dists), bound)
         IN IF Head(dists) < bound
            THEN [rest EXCEPT !.close_index = <<Head(indexes)>> \o @,
                              !.close_dist = <<Head(dists)>> \o @]
            ELSE [rest EXCEPT !.far = <<Head(indexes)>> \o @]

\* the same pass with the members at the bound going to close
RECURSIVE InclusiveLoop(_, _, _)
InclusiveLoop(indexes, dists, bound) ==
    IF indexes = <<>> \/ dists = <<>>
    THEN [close_index |-> <<>>, close_dist |-> <<>>, far |-> <<>>]
    ELSE LET rest == InclusiveLoop(Tail(indexes), Tail(dists), bound)
         IN IF Head(dists) <= bound
            THEN [rest EXCEPT !.close_index = <<Head(indexes)>> \o @,
                              !.close_dist = <<Head(dists)>> \o @]
            ELSE [rest EXCEPT !.far = <<Head(indexes)>> \o @]

\* CoveredData::new that takes the first point as center
CoveredDataNewFirst(c, avail) ==
    LET all == reference_indexes(c)
        center_index == all[1]
        coverage == SubSeq(all, 2, Len(all))
        dists == Provider(avail, distances_to_point_index(c, center_index, coverage))
    IN IF dists.tag = "Err" THEN dists
       ELSE Ok([dists |-> dists.val, coverage |-> coverage,
                center_index |-> center_index])
\* CoveredData::new
CoveredDataNew(c, avail) ==
    LET all == reference_indexes(c)
        center_index == all[Len(all)]
        coverage == SubSeq(all, 1, Len(all) - 1)
        dists == Provider(avail, distances_to_point_index(c, center_index, coverage))
    IN IF dists.tag = "Err" THEN dists
       ELSE Ok([dists |-> dists.val, coverage |-> coverage,
                center_index |-> center_index])

\* split that also takes the members at the threshold as close
SplitInclusive(self, thresh) ==
    LET p == InclusiveLoop(self.coverage, self.dists, thresh)
    IN Ok([close |-> [dists |-> p.close_dist, coverage |-> p.close_index,
                      center_index |-> self.center_index],
           far |-> [coverage |-> p.far]])
\* CoveredData::split
split(self, thresh) ==
    LET p == PartitionLoop(self.coverage, self.dists, thresh)
    IN Ok([close |-> [dists |-> p.close_dist, coverage |-> p.close_index,
                      center_index |-> self.center_index],
           far |-> [coverage |-> p.far]])

\* CoveredData::len
covered_len(self) == Len(self.coverage) + 1
\* UncoveredData::len
uncovered_len(self) == Len(self.coverage)

\* pick_center that asks for the distances before it takes the center out,
\* and walks the pool left along the distances of the pool it had
PickCenterMisaligned(self, radius, new_center, c, avail) ==
    LET center_index == self.coverage[new_center + 1]
        removed == RemoveAt(self.coverage, new_center + 1)
        dists == Provider(avail, distances_to_point_index(c, center_index, self.coverage))
    IN IF dists.tag = "Err"
       THEN [ret |-> dists, self |-> [coverage |-> removed]]
       ELSE LET p == PartitionLoop(removed, dists.val, radius)
            IN [ret |-> Ok([dists |-> p.close_dist, coverage |-> p.close_index,
                            center_index |-> center_index]),
                self |-> [coverage |-> p.far]]
\* pick_center that reads the center and leaves it in the pool
PickCenterKeeps(self, radius, new_center, c, avail) ==
    LET center_index == self.coverage[new_center + 1]
        dists == Provider(avail, distances_to_point_index(c, center_index, self.coverage))
    IN IF dists.tag = "Err"
       THEN [ret |-> dists, self |-> self]
       ELSE LET p == PartitionLoop(self.coverage, dists.val, radius)
            IN [ret |-> Ok([dists |-> p.close_dist, coverage |-> p.close_index,
                            center_index |-> center_index]),
                self |-> [coverage |-> p.far]]
\* UncoveredData::pick_center, new_center being the position gen_range drew:
\* the result, and the UncoveredData after the call (the center is taken out
\* of the pool before the distances are asked for)
pick_center(self, radius, new_center, c, avail) ==
    LET center_index == self.coverage[new_center + 1]
        removed == RemoveAt(self.coverage, new_center + 1)
        dists == Provider(avail, distances_to_point_index(c, center_index, removed))
    IN IF dists.tag = "Err"
       THEN [ret |-> dists, self |-> [coverage |-> removed]]
       ELSE LET p == PartitionLoop(removed, dists.val, radius)
            IN [ret |-> Ok([dists |-> p.close_dist, coverage |-> p.close_index,
                            center_index |-> center_index]),
                self |-> [coverage |-> p.far]]

----------------------------------------------------------------------------
(* SpecPart: the caches in hand while one level of the tree is built *)

\* the coordinates of the points: distances are 0 or 2
Coordinates == {0, 2}
\* the clouds: one to MaxPoints points
Clouds == UNION {[1..n -> Coordinates] : n \in 1..MaxPoints}
\* the thresholds of split and the radii of pick_center: negative, zero,
\* among the distances, above them
Thresholds == {-1, 0, 1, 2, 3}

PartCall(op, args, ret) ==
    [op |-> op, args |-> args, ret |-> ret,
     pre |-> [covered |-> covered, uncovered |-> uncovered]]

InitPart ==
    /\ cloud \in Clouds
    /\ covered = None
    /\ uncovered = None
    /\ plast = [op |-> "none", args |-> <<>>, ret |-> Ok(Unit),
                pre |-> [covered |-> None, uncovered |-> None]]
    /\ queries = <<>>
    /\ picks = NoPicks
    /\ node = NewNode(<<0, 0>>)
    /\ last = Call("new", [address |-> <<0, 0>>], Ok(Unit))
    /\ applied = 0
    /\ nests = <<>>

\* CoveredData::new(point_cloud): the bucket over the whole cloud
New ==
    \E avail \in BOOLEAN :
        LET r == CoveredDataNew(cloud, avail)
        IN /\ covered' = IF r.tag = "Ok" THEN Some(r.val) ELSE covered
           /\ plast' = PartCall("new", [avail |-> avail], r)
           /\ UNCHANGED <<uncovered, cloud, nodeVars>>

\* covered.split(thresh): the bucket is consumed, close and far take its place
Split ==
    \E thresh \in Thresholds :
        /\ covered.tag = "Some"
        /\ LET r == split(covered.val, thresh)
           IN /\ covered' = Some(r.val.close)
              /\ uncovered' = Some(r.val.far)
              /\ plast' = PartCall("split", [thresh |-> thresh], r)
        /\ UNCHANGED <<cloud, nodeVars>>

\* uncovered.pick_center(radius, point_cloud) on a pool that is not empty
\* (gen_range(0, 0) panics)
PickCenter ==
    \E radius \in Thresholds, avail \in BOOLEAN :
        /\ uncovered.tag = "Some"
        /\ uncovered.val.coverage # <<>>
        /\ \E new_center \in 0..(Len(uncovered.val.coverage) - 1) :
              LET r == pick_center(uncovered.val, radius, new_center, cloud, avail)
              IN /\ covered' = IF r.ret.tag = "Ok" THEN Some(r.ret.val) ELSE covered
                 /\ uncovered' = Some(r.self)
                 /\ plast' = PartCall("pick_center",
                                      [radius |-> radius, new_center |-> new_center,
                                       avail |-> avail], r.ret)
        /\ UNCHANGED <<cloud, nodeVars>>

\* a step of SpecPart, SpecMetric: the history of the picks is not kept
Part(call) == call /\ UNCHANGED picks

NextPart ==
    \/ Part(New)
    \/ Part(Split)
    \/ Part(PickCenter)

SpecPart == InitPart /\ [][NextPart]_vars

----------------------------------------------------------------------------
(* SpecPick: pick_center repeated on the pool a split has left, until the   *)
(* pool is empty                                                            *)

\* the bucket over the cloud has been built and split: the far side is the
\* pool
InitPick ==
    /\ cloud \in Clouds
    /\ \E thresh \in Thresholds :
          LET whole == CoveredDataNew(cloud, TRUE).val
              r == split(whole, thresh)
          IN /\ covered = Some(r.val.close)
             /\ uncovered = Some(r.val.far)
             /\ plast = [op |-> "split", args |-> [thresh |-> thresh], ret |-> r,
                         pre |-> [covered |-> Some(whole), uncovered |-> None]]
             /\ picks = [pool |-> r.val.far.coverage, calls |-> 0,
                         returned |-> <<>>]
    /\ node = NewNode(<<0, 0>>)
    /\ last = Call("new", [address |-> <<0, 0>>], Ok(Unit))
    /\ applied = 0
    /\ nests = <<>>
    /\ queries = <<>>

\* one more pick_center on the pool; the CoveredData it returns is kept
Repeat ==
    /\ PickCenter
    /\ picks' = [picks EXCEPT
                    !.calls = @ + 1,
                    !.returned = IF plast'.ret.tag = "Ok"
                                 THEN Append(@, plast'.ret.val) ELSE @]

NextPick == Repeat

SpecPick == InitPick /\ [][NextPick]_vars

----------------------------------------------------------------------------
(* find_split (data_caches.rs): the binary search over (distance, index)    *)
(* pairs sorted by distance.  A slice is a sequence of pairs <<distance,    *)
(* index>>, its position 0 being element 1 of the sequence.                 *)

Panic(why) == [tag |-> "Panic", why |-> why]

\* the builds: overflow checks on (debug) or off (release)
Builds == {"debug", "release"}

\* a - b on usize: a panic where overflow is checked, the wrapped value
\* where it is not
UsizeSub(a, b, build) ==
    IF a >= b THEN Ok(a - b)
    ELSE IF build = "debug" THEN Panic("attempt to subtract with overflow")
         ELSE Ok((a - b) % (2 ^ UsizeBits))

\* the while loop of find_split
RECURSIVE FindSplitLoop(_, _, _, _)
FindSplitLoop(dist_indexes, thresh, smaller, larger) ==
    IF smaller <= larger
    THEN LET m == (smaller + larger) \div 2
         IN IF m >= Len(dist_indexes) THEN Panic("index out of bounds")
            ELSE IF dist_indexes[m + 1][1] < thresh
                 THEN FindSplitLoop(dist_indexes, thresh, m + 1, larger)
                 ELSE IF dist_indexes[m + 1][1] > thresh
                      THEN IF m = 0 THEN Ok(0)
                           ELSE FindSplitLoop(dist_indexes, thresh, smaller, m - 1)
                      ELSE Ok(m)
    ELSE Ok(smaller)

\* find_split, in the given build
find_split(dist_indexes, thresh, build) ==
    LET larger == UsizeSub(Len(dist_indexes), 1, build)
    IN IF larger.tag = "Panic" THEN larger
       ELSE FindSplitLoop(dist_indexes, thresh, 0, larger.val)

\* the distances of the slices: ascending, 0 to MaxSlice of them, among
\* 0, 1, 2
SortedDists ==
    {s \in SeqsUpTo({0, 1, 2}, MaxSlice) :
        \A i \in 1..(Len(s) - 1) : s[i] <= s[i + 1]}

\* the pairs of a sorted list of distances: the i-th with index i - 1
Pairs(dists) == [i \in 1..Len(dists) |-> <<dists[i], i - 1>>]

FindSplit ==
    \E s \in SortedDists, thresh \in Thresholds, build \in Builds :
        /\ plast' = PartCall("find_split",
                             [dist_indexes |-> Pairs(s), thresh |-> thresh,
                              build |-> build],
                             find_split(Pairs(s), thresh, build))
        /\ UNCHANGED <<covered, uncovered, cloud, nodeVars, picks>>

NextFind == FindSplit

SpecFind == InitNode /\ [][NextFind]_vars

----------------------------------------------------------------------------
(* SpecMetric: the operations that call the Metric Provider, on a built     *)
(* node and on the caches.  The node and the caches share no state: a       *)
(* behaviour works on the node or on the caches.                            *)

RECURSIVE InsertChildren(_, _)
InsertChildren(n, addresses) ==
    IF addresses = <<>> THEN n
    ELSE InsertChildren(insert_child(n, Head(addresses), 1).node, Tail(addresses))

\* the node at (0, 0) after insert_singletons, then, for a routing node,
\* insert_nested_child(-1, 1) and an insert_child per sibling
BuildNode(singles, nested, addresses) ==
    LET leaf == insert_singletons(NewNode(<<0, 0>>), singles)
    IN IF nested
       THEN InsertChildren(insert_nested_child(leaf, -1, 1).node, addresses)
       ELSE leaf

\* the singles lists of the built nodes (3 is no point of the cloud)
BuiltSingles == {<<>>, <<2>>, <<2, 1>>, <<1, 3>>}
\* the sibling lists of the built routing nodes
BuiltChildren ==
    {<<>>, <<<<-1, 1>>>>, <<<<-1, 1>>, <<-1, 2>>>>, <<<<-1, 2>>, <<0, 3>>>>}

BuiltNodes ==
    {BuildNode(singles, FALSE, <<>>) : singles \in BuiltSingles}
        \cup {BuildNode(singles, TRUE, addresses) :
                 singles \in BuiltSingles, addresses \in BuiltChildren}

InitMetric ==
    /\ node \in BuiltNodes
    /\ last = Call("new", [address |-> node.address], Ok(Unit))
    /\ applied = 0
    /\ nests = <<>>
    /\ cloud = NodeCloud
    /\ covered = None
    /\ uncovered = None
    /\ plast = [op |-> "none", args |-> <<>>, ret |-> Ok(Unit),
                pre |-> [covered |-> None, uncovered |-> None]]
    /\ queries = <<>>
    /\ picks = NoPicks

\* a call on the node
NodeMetric ==
    /\ plast.op = "none"
    /\ \/ Step(Knn)
       \/ Step(SingletonKnn)
       \/ Step(ChildKnn)
       \/ Step(CheckSeperation)
       \/ Step(UpdateMetasummary)

\* a call on the caches
PartMetric ==
    /\ last.op = "new"
    /\ \/ Part(New)
       \/ Part(Split)
       \/ Part(PickCenter)

NextMetric ==
    \/ NodeMetric
    \/ PartMetric

SpecMetric == InitMetric /\ [][NextMetric]_vars

----------------------------------------------------------------------------
(* SpecConcurrent: two threads, each running one knn call on the same built *)
(* node with a heap of its own.  A thread is a record [pc, point,           *)
(* dist_to_center, heap, dists, d, ret]; a step is one provider call or one *)
(* push to the heap.                                                        *)

Threads == {1, 2}

Running == [tag |-> "Running"]

\* a knn call about to start on KnnQueryHeap::new(k, _)
StartQuery(k, point, dist_to_center) ==
    [pc |-> "singles_dist", k |-> k, point |-> point,
     dist_to_center |-> dist_to_center, heap |-> NewHeap(k),
     dists |-> <<>>, d |-> 0, ret |-> Running]

\* the call returns r
Return(q, r) == [q EXCEPT !.pc = "done", !.ret = r]

\* the next statement of knn (singleton_knn and child_knn inlined) in thread
\* state q, reading the node n and the cloud c
QueryStep(n, c, q) ==
    CASE q.pc = "singles_dist" ->
             LET r == distances_to_point(c, q.point, n.singles_indexes)
             IN IF r.tag = "Err" THEN Return(q, r)
                ELSE [q EXCEPT !.pc = "singles_push", !.dists = r.val]
      [] q.pc = "singles_push" ->
             [q EXCEPT !.pc = "center_dist",
                       !.heap = push_outliers(@, n.singles_indexes, q.dists)]
      [] q.pc = "center_dist" ->
             LET r == distances_to_point(c, q.point, <<n.address[2]>>)
             IN IF r.tag = "Err" THEN Return(q, r)
                ELSE [q EXCEPT !.pc = "child_center_dist",
                               !.d = IF q.dist_to_center.tag = "Some"
                                     THEN q.dist_to_center.val ELSE r.val[1]]
      [] q.pc = "child_center_dist" ->
             LET r == distances_to_point(c, q.point, <<n.address[2]>>)
             IN IF r.tag = "Err" THEN Return(q, r)
                ELSE [q EXCEPT !.pc = IF n.children.tag = "Some"
                                      THEN "nested_push" ELSE "leaf_push"]
      [] q.pc = "nested_push" ->
             [q EXCEPT !.pc = "children_dist",
                       !.heap = push_nodes(@, <<<<n.children.val.nested_scale,
                                                  n.address[2]>>>>,
                                           <<q.d>>, None)]
      [] q.pc = "children_dist" ->
             LET r == distances_to_point(c, q.point, ChildCenters(n))
             IN IF r.tag = "Err" THEN Return(q, r)
                ELSE [q EXCEPT !.pc = "children_push", !.dists = r.val]
      [] q.pc = "children_push" ->
             Return([q EXCEPT !.heap = push_nodes(@, n.children.val.addresses,
                                                  q.dists, Some(n.address))],
                    Ok(Unit))
      [] q.pc = "leaf_push" ->
             Return([q EXCEPT !.heap = push_outliers(@, <<n.address[2]>>, <<q.d>>)],
                    Ok(Unit))

\* a step that also pushes to the heaps of the other threads
PublishShared(qs, i, q) ==
    [j \in DOMAIN qs |-> IF j = i THEN q ELSE [qs[j] EXCEPT !.heap = q.heap]]
\* the effect of a step of thread i: its locals and its heap, which it holds
\* by &mut, exclusively
Publish(qs, i, q) == [qs EXCEPT ![i] = q]

InitConcurrent ==
    /\ node \in BuiltNodes
    /\ last = Call("new", [address |-> node.address], Ok(Unit))
    /\ applied = 0
    /\ nests = <<>>
    /\ cloud = NodeCloud
    /\ covered = None
    /\ uncovered = None
    /\ plast = [op |-> "none", args |-> <<>>, ret |-> Ok(Unit),
                pre |-> [covered |-> None, uncovered |-> None]]
    /\ picks = NoPicks
    /\ queries \in [Threads -> {StartQuery(k, point, dist_to_center) :
                                    k \in 1..MaxK, point \in QueryPoints,
                                    dist_to_center \in CenterDists}]

\* thread i runs its next statement
QueryRuns(i) ==
    /\ queries[i].pc # "done"
    /\ queries' = Publish(queries, i, QueryStep(node, cloud, queries[i]))
    /\ UNCHANGED <<node, last, applied, nests, cloud, partVars, picks>>

NextConcurrent == \E i \in Threads : QueryRuns(i)

SpecConcurrent == InitConcurrent /\ [][NextConcurrent]_vars

----------------------------------------------------------------------------
(* The claims about the mutation API *)

\* C1: a failed insert_nested_child (DoubleNest) or insert_child
\* (InsertBeforeNest) leaves every field of the node as it was before the call.
C1_FailedInsertLeavesNode ==
    [][(/\ last'.op \in {"insert_nested_child", "insert_child"}
        /\ last'.ret.tag = "Err")
       => node' = node]_vars

\* C2: starting from new(address), cover_count equals the coverage of the
\* insert_nested_child / insert_child calls that returned Ok plus the number
\* of singletons inserted.
C2_CoverCountIsCoverageApplied == node.cover_count = applied

\* C3, as claimed: over any sequence of mutation calls the node goes from leaf
\* to routing at most once, and the nested scale, once established, never
\* becomes another value.
C3_NestOnceForever ==
    /\ Len(nests) <= 1
    /\ node.children.tag = "Some" => node.children.val.nested_scale = nests[1]

\* C3, amended: a routing node keeps its nested scale through every call that
\* leaves it routing, only remove_children makes it a leaf again, and only a
\* successful insert_nested_child makes a leaf routing.  So between two
\* remove_children calls the node is nested at most once.
C3_NestOnceUntilRemoved ==
    [][/\ (node.children.tag = "Some" /\ node'.children.tag = "Some")
          => node'.children.val.nested_scale = node.children.val.nested_scale
       /\ (node.children.tag = "Some" /\ node'.children.tag = "None")
          => last'.op = "remove_children"
       /\ (node.children.tag = "None" /\ node'.children.tag = "Some")
          => (last'.op = "insert_nested_child" /\ last'.ret = Ok(Unit))]_vars

\* C3 witness: a node nested, un-nested and nested again has refused an
\* insert_nested_child with another scale.
C3_Witness ==
    /\ Len(nests) = 2
    /\ last.op = "insert_nested_child"
    /\ last.ret = Err("DoubleNest")
    /\ node.children.tag = "Some"
    /\ node.children.val.nested_scale # last.args.scale_index

\* C4: insert_nested_child on a routing node returns DoubleNest and keeps the
\* nested scale and the sibling list; on a leaf it returns Ok and sets
\* children to the given nested scale with no siblings.
C4_InsertNestedChild ==
    [][last'.op = "insert_nested_child"
       => IF node.children.tag = "Some"
          THEN /\ last'.ret = Err("DoubleNest")
               /\ node'.children = node.children
          ELSE /\ last'.ret = Ok(Unit)
               /\ node'.children = Some([nested_scale |-> last'.args.scale_index,
                                         addresses |-> <<>>])]_vars

\* C4 witness: a routing node with siblings has refused a second nesting
\* with another scale.
C4_Witness ==
    /\ last.op = "insert_nested_child"
    /\ last.ret = Err("DoubleNest")
    /\ node.children.tag = "Some"
    /\ node.children.val.addresses # <<>>
    /\ node.children.val.nested_scale # last.args.scale_index

\* C5: insert_child on a leaf returns InsertBeforeNest and the node stays a
\* leaf; on a routing node it returns Ok and the sibling list is the previous
\* list with the address appended at the end.
C5_InsertChild ==
    [][last'.op = "insert_child"
       => IF node.children.tag = "None"
          THEN /\ last'.ret = Err("InsertBeforeNest")
               /\ node'.children = None
          ELSE /\ last'.ret = Ok(Unit)
               /\ node'.children =
                    Some([nested_scale |-> node.children.val.nested_scale,
                          addresses |-> Append(node.children.val.addresses,
                                               last'.args.address)])]_vars

\* C5 witness: a second, different sibling has been appended.
C5_Witness ==
    /\ last.op = "insert_child"
    /\ last.ret = Ok(Unit)
    /\ Len(node.children.val.addresses) = 2
    /\ node.children.val.addresses[1] # node.children.val.addresses[2]
    /\ node.children.val.addresses[2] = last.args.address

----------------------------------------------------------------------------
(* The claims about the persistence mapping and the queries *)

\* C8: load(n.scale_index, n.save()) equals n in address, radius,
\* cover_count, singles, leaf/routing status, nested scale and sibling list;
\* only singles_summary differs, being reset to the empty summary.
C8_SaveLoadRoundTrip ==
    (last.op = "save_load" /\ last.args.scale_index = node.address[1])
    => last.ret.val.loaded = [node EXCEPT !.singles_summary = Some(EmptySummary)]

\* C8 witness: a routing node with two siblings, a singleton, a radius and a
\* non-empty summary has been saved and loaded at its own scale.
C8_Witness ==
    /\ last.op = "save_load"
    /\ last.args.scale_index = node.address[1]
    /\ node.children.tag = "Some"
    /\ Len(node.children.val.addresses) = 2
    /\ node.children.val.addresses[1] # node.children.val.addresses[2]
    /\ node.children.val.nested_scale = -1
    /\ node.singles_indexes # <<>>
    /\ node.radius = 1
    /\ node.singles_summary.tag = "Some"
    /\ node.singles_summary.val # EmptySummary

\* C9: check_seperation(scale) returns true if and only if scale is strictly
\* less than the least pairwise distance among the center, the singles and
\* the sibling centers (stated for nodes that have at least one pair).
C9_SeparationIffScaleBelowMin ==
    (/\ last.op = "check_seperation"
     /\ last.ret.tag = "Ok"
     /\ adj_min(cloud, SeparationNodes(node)).val.tag = "Some")
    => (last.ret.val <=> last.args.scale < adj_min(cloud, SeparationNodes(node)).val.val)

\* the position of entry j when the entries <<distance, index>> are put in
\* ascending distance, equal distances in their original order
Rank(entries, j) ==
    1 + Cardinality({i \in 1..Len(entries) :
                        \/ entries[i][1] < entries[j][1]
                        \/ (entries[i][1] = entries[j][1] /\ i < j)})

\* a brute-force k nearest: the first k of the entries so ordered
BruteForce(entries, k) ==
    [p \in 1..(IF Len(entries) < k THEN Len(entries) ELSE k) |->
        entries[CHOOSE j \in 1..Len(entries) : Rank(entries, j) = p]]

\* the singletons of the node with their distances to the query point
SingleEntries(n, point) ==
    [i \in 1..Len(n.singles_indexes) |->
        <<Abs(point - cloud[n.singles_indexes[i] + 1]), n.singles_indexes[i]>>]

\* the center distance a knn call works with: the one passed, else the real one
CenterDist(n, call) ==
    IF call.args.dist_to_center.tag = "Some"
    THEN call.args.dist_to_center.val
    ELSE Abs(call.args.point - cloud[n.address[2] + 1])

\* a knn call on a leaf that returned Ok
LeafKnnDone ==
    /\ last.op = "knn"
    /\ last.ret.ret.tag = "Ok"
    /\ node.children.tag = "None"

\* C10, as claimed: for a leaf, the best-k result of one knn call on an empty
\* heap is the k nearest of a brute force over the singletons alone, and no
\* point outside the singleton set is in the result.
C10_LeafKnnOverSingles ==
    LeafKnnDone
    => /\ unpack(last.ret.heap) = BruteForce(SingleEntries(node, last.args.point),
                                             last.args.k)
       /\ \A i \in 1..Len(unpack(last.ret.heap)) :
             unpack(last.ret.heap)[i][2] \in Range(node.singles_indexes)

\* C10, amended: the result is the k nearest of a brute force over the
\* singletons followed by the node's own center.
C10_LeafKnnOverSinglesAndCenter ==
    LeafKnnDone
    => unpack(last.ret.heap) =
          BruteForce(Append(SingleEntries(node, last.args.point),
                            <<CenterDist(node, last), node.address[2]>>),
                     last.args.k)

\* C10 witness: a leaf with singles 2, 1 (both at distance 1 of the query
\* point) and a center at distance 0; with k = 2 the result is the center,
\* then single 2, the first of the two tied.
C10_Witness ==
    /\ LeafKnnDone
    /\ node.singles_indexes = <<2, 1>>
    /\ last.args = [k |-> 2, point |-> 1, dist_to_center |-> None]
    /\ unpack(last.ret.heap) = <<<<0, 0>>, <<1, 2>>>>

----------------------------------------------------------------------------
(* The claims about the caches *)

\* the distance between two points of the cloud
Dist(a, b) == Abs(cloud[a + 1] - cloud[b + 1])
\* a sequence without repeated elements
Distinct(seq) == Cardinality(Range(seq)) = Len(seq)

\* C6: split(threshold) puts in close the members whose stored distance is
\* below the threshold, each with its distance, and in far those at or above
\* it (a threshold <= 0 sends every member to far); close keeps the center;
\* the members of close and of far are together the members of the bucket,
\* none lost and none twice.
C6_Split ==
    plast.op = "split"
    => LET pre == plast.pre.covered.val
           close == plast.ret.val.close
           far == plast.ret.val.far
           thresh == plast.args.thresh
       IN /\ covered = Some(close)
          /\ uncovered = Some(far)
          /\ Len(close.dists) = Len(close.coverage)
          /\ \A i \in 1..Len(close.coverage) : close.dists[i] < thresh
          /\ \A j \in 1..Len(pre.coverage) :
                /\ pre.coverage[j] \in Range(close.coverage) <=> pre.dists[j] < thresh
                /\ pre.coverage[j] \in Range(far.coverage) <=> pre.dists[j] >= thresh
          /\ thresh <= 0 => (close.coverage = <<>> /\ far.coverage = pre.coverage)
          /\ close.center_index = pre.center_index
          /\ Len(close.coverage) + Len(far.coverage) = Len(pre.coverage)
          /\ Range(close.coverage) \cup Range(far.coverage) = Range(pre.coverage)
          /\ Range(close.coverage) \cap Range(far.coverage) = {}
          /\ Distinct(close.coverage)
          /\ Distinct(far.coverage)

\* C6 witness: a split with a positive threshold that kept a member in close
\* and sent a member whose distance equals the threshold to far.
C6_Witness ==
    /\ plast.op = "split"
    /\ plast.args.thresh > 0
    /\ covered.val.coverage # <<>>
    /\ \E j \in 1..Len(plast.pre.covered.val.coverage) :
          /\ plast.pre.covered.val.dists[j] = plast.args.thresh
          /\ plast.pre.covered.val.coverage[j] \in Range(uncovered.val.coverage)

\* C7: pick_center(radius) on a pool of distinct indexes: the center is a
\* member of the pool and is in neither the covered set nor the pool left;
\* the two are disjoint and together the pool without the center; a covered
\* member is at distance < radius of the center, a member left at >= radius.
C7_PickCenter ==
    (plast.op = "pick_center" /\ plast.ret.tag = "Ok")
    => LET pool == plast.pre.uncovered.val.coverage
           close == plast.ret.val
           left == uncovered.val.coverage
           center == close.center_index
       IN /\ center = pool[plast.args.new_center + 1]
          /\ center \notin Range(close.coverage)
          /\ center \notin Range(left)
          /\ Range(close.coverage) \cap Range(left) = {}
          /\ Range(close.coverage) \cup Range(left) = Range(pool) \ {center}
          /\ Distinct(close.coverage)
          /\ Distinct(left)
          /\ \A m \in Range(close.coverage) : Dist(center, m) < plast.args.radius
          /\ \A m \in Range(left) : Dist(center, m) >= plast.args.radius

\* C7 witness: the first of a pool of two was drawn as center and the other
\* member is covered.
C7_Witness ==
    /\ plast.op = "pick_center"
    /\ plast.ret.tag = "Ok"
    /\ Len(plast.pre.uncovered.val.coverage) = 2
    /\ plast.args.new_center = 0
    /\ plast.ret.val.coverage # <<>>
    /\ uncovered.val.coverage = <<>>

----------------------------------------------------------------------------
(* The claims about one knn call on a node with children *)

\* a knn call that returned Ok
KnnDone == last.op = "knn" /\ last.ret.ret.tag = "Ok"

\* the addresses in the node queue, in the order they were offered
QueuedAddresses(heap) == [i \in 1..Len(heap.nodes) |-> heap.nodes[i].address]

\* C11: after one knn call on an empty heap that returned Ok, the node queue
\* of a routing node holds len(sibling addresses) + 1 entries, the nested
\* child address (nested_scale, center index) and every entry of the sibling
\* list once; the node queue of a leaf holds no entry.
C11_NodeQueueAfterKnn ==
    KnnDone
    => IF node.children.tag = "Some"
       THEN /\ node_len(last.ret.heap) = Len(node.children.val.addresses) + 1
            /\ QueuedAddresses(last.ret.heap) =
                   <<<<node.children.val.nested_scale, node.address[2]>>>>
                       \o node.children.val.addresses
       ELSE node_len(last.ret.heap) = 0

\* C11 witness: a routing node with two siblings and a single, three entries
C11_Witness ==
    /\ KnnDone
    /\ node.children.tag = "Some"
    /\ Len(node.children.val.addresses) = 2
    /\ node.singles_indexes # <<>>
    /\ node_len(last.ret.heap) = 3

C13_QueriesLeaveNode ==
    [][last'.op \in {"knn", "singleton_knn", "child_knn"}
          => /\ node'.address = node.address
             /\ node'.radius = node.radius
             /\ node'.cover_count = node.cover_count
             /\ node'.singles_indexes = node.singles_indexes
             /\ node'.children = node.children
             /\ node'.singles_summary = node.singles_summary]_vars

\* C13 witness: a knn call that failed on a sibling's center after it had
\* offered a candidate and the nested child to its heap
C13_Witness ==
    /\ last.op = "knn"
    /\ last.ret.ret.tag = "Err"
    /\ heap_len(last.ret.heap) = 1
    /\ node_len(last.ret.heap) = 1
    /\ node.cover_count > 0

\* the knn call of a thread, run alone on a fresh heap
Alone(q) == knn(node, q.dist_to_center, q.point, cloud, NewHeap(q.k))

\* C14: two knn calls run concurrently on the same built node, each on its
\* own heap: in every interleaving, a call that has returned has returned
\* what the same call returns when run alone, and its heap holds the
\* candidates and the node entries the call run alone leaves.
C14_ConcurrentAsAlone ==
    \A i \in DOMAIN queries :
        queries[i].pc = "done"
        => /\ queries[i].ret = Alone(queries[i]).ret
           /\ queries[i].heap = Alone(queries[i]).heap

\* C14 witness: both calls have returned Ok from a routing node with singles
\* and siblings, with different query points and different heaps
C14_Witness ==
    /\ DOMAIN queries = Threads
    /\ \A i \in Threads : queries[i].pc = "done" /\ queries[i].ret.tag = "Ok"
    /\ queries[1].point # queries[2].point
    /\ queries[1].heap # queries[2].heap
    /\ node.singles_indexes # <<>>
    /\ ChildCenters(node) # <<>>

----------------------------------------------------------------------------
(* The claims about the coverage count and the metric errors *)

\* C15: cover_count never decreases: after any call on the node
\* (insert_nested_child, insert_child, insert_singleton(s), remove_children,
\* set_radius, update_metasummary, save and load; Ok or Err) it is at least
\* what it was before the call.
C15_CoverCountNeverDecreases ==
    [][node'.cover_count >= node.cover_count]_vars

\* C15 witness: remove_children has just turned a routing node that counts
\* coverage back into a leaf that still counts it
C15_Witness ==
    /\ last.op = "remove_children"
    /\ last.ret.val.tag = "Some"
    /\ node.children.tag = "None"
    /\ node.cover_count = MaxCount

\* a distances_to_point call of the last query that the provider fails
Failing(indexes) == distances_to_point(cloud, last.args.point, indexes).tag = "Err"

\* C16: a provider call that fails inside knn, singleton_knn, child_knn,
\* check_seperation, update_metasummary, CoveredData::new or pick_center
\* makes the operation return the provider's error: the failed call is the
\* last provider call the operation makes (it is not repeated and no other
\* call follows it), and an operation returns an error only then.
C16_MetricErrorSurfaces ==
    /\ last.op \in {"knn", "singleton_knn", "child_knn"}
       => /\ \A i \in 1..Len(last.ret.calls) :
                Failing(last.ret.calls[i])
                => /\ i = Len(last.ret.calls)
                   /\ last.ret.ret =
                         distances_to_point(cloud, last.args.point, last.ret.calls[i])
          /\ last.ret.ret.tag = "Err"
                => Failing(last.ret.calls[Len(last.ret.calls)])
    /\ last.op = "check_seperation"
       => /\ last.ret.tag = "Err" <=> adj_min(cloud, SeparationNodes(node)).tag = "Err"
          /\ last.ret.tag = "Err" => last.ret = adj_min(cloud, SeparationNodes(node))
    /\ last.op = "update_metasummary"
       => /\ last.ret.tag = "Err"
                <=> get_metasummary(cloud, node.singles_indexes).tag = "Err"
          /\ last.ret.tag = "Err"
                => last.ret = get_metasummary(cloud, node.singles_indexes)
    /\ plast.op \in {"new", "pick_center"}
       => /\ plast.ret.tag = "Err" <=> ~plast.args.avail
          /\ plast.ret.tag = "Err" => plast.ret = Provider(FALSE, Ok(<<>>))

\* C16 witness: a knn call whose fourth provider call, the distances to the
\* sibling centers, failed after three that succeeded
C16_Witness ==
    /\ last.op = "knn"
    /\ last.ret.ret = Err("MetricError")
    /\ Len(last.ret.calls) = 4
    /\ Failing(last.ret.calls[4])
    /\ heap_len(last.ret.heap) > 0

----------------------------------------------------------------------------
(* The claims about the order the caches keep *)

\* out is what is left of in when some of its elements are struck out: the
\* elements of out are elements of in, in the order they have in in
KeptInOrder(out, in) ==
    \E f \in [1..Len(out) -> 1..Len(in)] :
        /\ \A i \in 1..Len(out) : in[f[i]] = out[i]
        /\ \A i, j \in 1..Len(out) : i < j => f[i] < f[j]

\* the (index, distance) pairs of two aligned arrays
Zip(indexes, dists) == [i \in 1..Len(indexes) |-> <<indexes[i], dists[i]>>]

\* C17: split and pick_center keep the order of the input: the indexes of
\* close, and those of far (the pool left), come in the order they had in the
\* bucket (the pool), and every distance of close stands at the position of
\* its index.
C17_OrderKept ==
    /\ plast.op = "split"
       => LET pre == plast.pre.covered.val
              close == plast.ret.val.close
              far == plast.ret.val.far
          IN /\ Len(close.dists) = Len(close.coverage)
             /\ KeptInOrder(Zip(close.coverage, close.dists),
                            Zip(pre.coverage, pre.dists))
             /\ KeptInOrder(far.coverage, pre.coverage)
    /\ (plast.op = "pick_center" /\ plast.ret.tag = "Ok")
       => LET pool == plast.pre.uncovered.val.coverage
              close == plast.ret.val
          IN /\ Len(close.dists) = Len(close.coverage)
             /\ KeptInOrder(close.coverage, pool)
             /\ KeptInOrder(uncovered.val.coverage, pool)
             /\ \A i \in 1..Len(close.coverage) :
                   close.dists[i] = Dist(close.center_index, close.coverage[i])

\* C17 witness: pick_center drew the middle of a pool of three, covered one
\* of the two others and left the other: with a larger radius both are
\* covered, with a smaller one both are left, in the order of the pool
C17_Witness ==
    /\ plast.op = "pick_center"
    /\ plast.ret.tag = "Ok"
    /\ plast.pre.uncovered.val.coverage = <<0, 1, 2>>
    /\ plast.args.new_center = 1
    /\ plast.ret.val.coverage = <<0, 2>>
    /\ plast.ret.val.dists = <<0, 2>>

----------------------------------------------------------------------------
(* The claims about child_knn and the center distance *)

\* the provider call for the distance to the node's own center
CenterCall == <<node.address[2]>>

\* the entries a call has added to the node queue of the heap it was given
Offered(before, after) == SubSeq(after.nodes, Len(before.nodes) + 1, Len(after.nodes))

\* C18: when knn or child_knn is given the center distance, the provider is
\* not asked for the distance from the query point to the node's own center
\* during the call, and the given value is the distance of the nested-child
\* entry and of a leaf's own-center candidate.
C18_KnownDistanceReused ==
    (/\ last.op \in {"knn", "child_knn"}
     /\ last.args.dist_to_center.tag = "Some")
    => /\ \A i \in 1..Len(last.ret.calls) : last.ret.calls[i] # CenterCall
       /\ \A i \in 1..Len(last.ret.heap.nodes) :
             last.ret.heap.nodes[i].address[2] = node.address[2]
             /\ last.ret.heap.nodes[i].parent = None
             /\ last.ret.heap.nodes[i].address[1] < node.address[1]
             => last.ret.heap.nodes[i].dist = last.args.dist_to_center.val
       /\ \A i \in 1..Len(unpack(last.ret.heap)) :
             (last.op = "knn" /\ unpack(last.ret.heap)[i][2] = node.address[2])
             => unpack(last.ret.heap)[i][1] = last.args.dist_to_center.val

\* C19: child_knn on a leaf does nothing: whatever the query point and the
\* dist_to_center argument, it returns Ok, leaves the candidates and the node
\* queue of the heap as they were and makes no provider call.
C19_ChildKnnOnLeafDoesNothing ==
    (last.op = "child_knn" /\ is_leaf(node))
    => /\ last.ret.ret = Ok(Unit)
       /\ last.ret.heap = last.args.query_heap
       /\ last.ret.calls = <<>>

\* the entry child_knn offers for the nested child
NestedEntry ==
    [address |-> <<node.children.val.nested_scale, node.address[2]>>,
     dist |-> CenterDist(node, last),
     parent |-> None]

\* the entries child_knn offers for the siblings
SiblingEntries ==
    [i \in 1..Len(node.children.val.addresses) |->
        [address |-> node.children.val.addresses[i],
         dist |-> Abs(last.args.point - cloud[node.children.val.addresses[i][2] + 1]),
         parent |-> Some(node.address)]]

\* C20: child_knn on a routing node offers to the node queue first the nested
\* child, with address (nested_scale, center index), the distance from the
\* query point to the node's center (the one passed as known, else the one
\* computed) and no parent, then the siblings in sibling order, each with
\* the distance to its center and the node's address as parent; a call that
\* fails on a sibling's center has offered the nested child alone; the
\* candidates are left as they were.
C20_ChildKnnOffersInOrder ==
    (last.op = "child_knn" /\ ~is_leaf(node))
    => /\ last.ret.ret.tag = "Ok"
             => Offered(last.args.query_heap, last.ret.heap)
                    = <<NestedEntry>> \o SiblingEntries
       /\ last.ret.ret.tag = "Err"
             => Offered(last.args.query_heap, last.ret.heap) = <<NestedEntry>>
       /\ SubSeq(last.ret.heap.nodes, 1, Len(last.args.query_heap.nodes))
             = last.args.query_heap.nodes
       /\ last.ret.heap.best = last.args.query_heap.best

\* C20 witness: child_knn without a known distance, on a heap in use, at a
\* node with two different siblings: three entries follow the one it held
C20_Witness ==
    /\ last.op = "child_knn"
    /\ last.ret.ret.tag = "Ok"
    /\ last.args.dist_to_center = None
    /\ node_len(last.args.query_heap) = 1
    /\ node_len(last.ret.heap) = 4
    /\ node.children.val.addresses[1] # node.children.val.addresses[2]
    /\ last.ret.heap.nodes[3].dist # last.ret.heap.nodes[4].dist

----------------------------------------------------------------------------
(* The claims about remove_children and about the buckets *)

\* C21: remove_children returns the children structure the node held before
\* the call (None for a leaf, the nested scale and the sibling list for a
\* routing node), leaves the node a leaf and leaves address, radius,
\* cover_count, singles and singles_summary as they were.
C21_RemoveChildren ==
    [][last'.op = "remove_children"
          => /\ last'.ret = Ok(node.children)
             /\ node'.children = None
             /\ is_leaf(node')
             /\ node'.address = node.address
             /\ node'.radius = node.radius
             /\ node'.cover_count = node.cover_count
             /\ node'.singles_indexes = node.singles_indexes
             /\ node'.singles_summary = node.singles_summary]_vars

\* C21 witness: remove_children has handed back a nested scale and two
\* siblings from a node that has singles, a radius, a summary and coverage
C21_Witness ==
    /\ last.op = "remove_children"
    /\ last.ret.val.tag = "Some"
    /\ Len(last.ret.val.val.addresses) = 2
    /\ is_leaf(node)
    /\ node.singles_indexes # <<>>
    /\ node.radius = 1
    /\ node.singles_summary.tag = "Some"
    /\ node.cover_count > 0

\* the bucket CoveredData::new is to build over the cloud: the last point as
\* center, the others in reference order with their distances to it
WholeCloud ==
    [dists |-> [i \in 1..(Len(cloud) - 1) |-> Dist(Len(cloud) - 1, i - 1)],
     coverage |-> [i \in 1..(Len(cloud) - 1) |-> i - 1],
     center_index |-> Len(cloud) - 1]

\* C22: CoveredData::new over n >= 1 points takes the last point of the
\* reference order as center and covers the others in reference order with
\* their distances to it, so that len() = n; the split(t) that follows yields
\* close and far with close.len() + far.len() = n.
C22_NewCoversTheCloud ==
    /\ (plast.op = "new" /\ plast.ret.tag = "Ok")
       => /\ plast.ret.val = WholeCloud
          /\ covered = Some(WholeCloud)
          /\ covered_len(plast.ret.val) = Len(cloud)
    /\ (plast.op = "split" /\ plast.pre.covered = Some(WholeCloud))
       => covered_len(plast.ret.val.close) + uncovered_len(plast.ret.val.far)
             = Len(cloud)

\* C22 witness: the bucket over a cloud of four points has just been split
\* into a close bucket with a member and a pool that is not empty
C22_Witness ==
    /\ plast.op = "split"
    /\ plast.pre.covered = Some(WholeCloud)
    /\ Len(cloud) = 4
    /\ covered_len(plast.ret.val.close) = 2
    /\ uncovered_len(plast.ret.val.far) = 2

\* the CoveredData returned so far that hold the index, as center or member
Holders(index) ==
    {j \in 1..Len(picks.returned) :
        \/ picks.returned[j].center_index = index
        \/ index \in Range(picks.returned[j].coverage)}

\* C23: pick_center repeated on a pool of n distinct indexes until the pool
\* is empty takes at most n calls; a successful call shrinks the pool by one
\* and the number of members it covers; when the pool is empty every index
\* of the original pool is in exactly one of the CoveredData returned, as
\* its center or as a member; a pool of one yields a CoveredData of len() 1
\* and an empty pool.
C23_PickCenterExhaustsPool ==
    /\ picks.calls <= Len(picks.pool)
    /\ (plast.op = "pick_center" /\ plast.ret.tag = "Ok")
       => /\ uncovered_len(uncovered.val)
                = uncovered_len(plast.pre.uncovered.val) - covered_len(plast.ret.val)
          /\ uncovered_len(plast.pre.uncovered.val) = 1
                => covered_len(plast.ret.val) = 1 /\ uncovered_len(uncovered.val) = 0
    /\ uncovered_len(uncovered.val) = 0
       => \A index \in Range(picks.pool) :
             /\ Cardinality(Holders(index)) = 1
             /\ \A j \in Holders(index) :
                   ~(/\ picks.returned[j].center_index = index
                     /\ index \in Range(picks.returned[j].coverage))

\* a CoveredData whose arrays are aligned: as many distances as indexes, the
\* i-th the distance from the i-th index to the center, the center not among
\* the indexes
Aligned(bucket) ==
    /\ Len(bucket.dists) = Len(bucket.coverage)
    /\ \A i \in 1..Len(bucket.coverage) :
          bucket.dists[i] = Dist(bucket.coverage[i], bucket.center_index)
    /\ bucket.center_index \notin Range(bucket.coverage)

\* C24: every CoveredData that CoveredData::new, split or pick_center
\* produces has as many distances as indexes, the i-th distance being the
\* distance from the i-th index to the center, and a center that is not among
\* its indexes.
C24_CoveredDataAligned ==
    /\ covered.tag = "Some" => Aligned(covered.val)
    /\ (plast.op \in {"new", "pick_center"} /\ plast.ret.tag = "Ok")
       => Aligned(plast.ret.val) /\ covered = Some(plast.ret.val)
    /\ plast.op = "split"
       => Aligned(plast.ret.val.close) /\ covered = Some(plast.ret.val.close)

\* C24 witness: pick_center drew the first of a pool of three and covered the
\* two others, one at distance 0 and one at distance 2
C24_Witness ==
    /\ plast.op = "pick_center"
    /\ plast.ret.tag = "Ok"
    /\ plast.args.new_center = 0
    /\ Len(plast.pre.uncovered.val.coverage) = 3
    /\ covered.val.dists \in {<<0, 2>>, <<2, 0>>}

----------------------------------------------------------------------------
(* The claim about find_split *)

\* C25: find_split on a slice sorted ascending by distance (the empty slice
\* and slices with several pairs at the threshold included) returns, without
\* an out-of-range access or an integer underflow, a position p such that
\* every pair before p has a distance < thresh and every pair from p on a
\* distance >= thresh.
C25_FindSplit ==
    plast.op = "find_split"
    => /\ plast.ret.tag = "Ok"
       /\ plast.ret.val \in 0..Len(plast.args.dist_indexes)
       /\ \A i \in 1..Len(plast.args.dist_indexes) :
             IF i - 1 < plast.ret.val
             THEN plast.args.dist_indexes[i][1] < plast.args.thresh
             ELSE plast.args.dist_indexes[i][1] >= plast.args.thresh

====
